---------------------------- MODULE Spec2Model ----------------------------
(***************************************************************************)
(* A model of the two LuCI views of luci-app-tailscale:                    *)
(*                                                                         *)
(*   - the status view (src/unnamed/part_000): loadInterfaceInfo,          *)
(*     loadPeerStatus, load, pollData;                                     *)
(*   - the interface view (src/htdocs/.../view/tailscale/interface.js):    *)
(*     load, pollData.                                                     *)
(*                                                                         *)
(* JavaScript strings are sequences of one-character strings, so that      *)
(* trim, split, includes, startsWith, parseInt, the two regular            *)
(* expressions and JSON.parse are computed on the text itself.             *)
(* JavaScript values are tagged records ([t |-> "string", v |-> ...]).     *)
(*                                                                         *)
(* The host's facilities are the environment: fs.read resolves to the      *)
(* file's text or to the falsy failure indicator the code tests with       *)
(* `!rxRes`; fs.exec resolves to a result object or rejects with an error  *)
(* (the case `.catch` at part_000:61 handles).                             *)
(***************************************************************************)
EXTENDS Integers, Sequences, FiniteSets, TLC

VARIABLES
    view,       \* the view whose load runs: "status" (part_000) or "interface"
    pc,         \* "idle", "loading" (a load in flight), "done" (its caller resumed)
    cycle,      \* number of refresh cycles started
    outcome,    \* this cycle's source outcomes: what each fs call will settle to
    slot,       \* settled value of each fs call of the cycle in flight, or Pending
    first,      \* the source whose fs call settled first in this cycle (history)
    ifaceP,     \* promise of loadInterfaceInfo() (interface view: of load())
    peerP,      \* promise of loadPeerStatus()
    loadP,      \* promise of load()
    prev        \* the sources that failed in the previous cycle (history)

vars == <<view, pc, cycle, outcome, slot, first, ifaceP, peerP, loadP, prev>>

(***************************************************************************)
(* Bounds of the model.                                                    *)
(***************************************************************************)
MaxCycles == 2      \* refresh cycles in one behaviour
MaxLines == 2       \* lines in the address command's output
MaxPeers == 2       \* peers in a status document assembled from sample records
MaxFrags == 2       \* fragments in a failure message

(***************************************************************************)
(* JavaScript values.                                                      *)
(***************************************************************************)
Undefined == [t |-> "undefined"]
JNull == [t |-> "null"]
NaN == [t |-> "NaN"]
JBool(b) == [t |-> "boolean", v |-> b]
JNum(n) == [t |-> "number", v |-> n]
JStr(s) == [t |-> "string", v |-> s]
JArr(elems) == [t |-> "array", v |-> elems]
\* An object is its own properties in insertion order: <<key, value>> pairs.
JObj(props) == [t |-> "object", v |-> props]

IsString(x) == x.t = "string"

\* ToBoolean, as used by `!x`, `x ? a : b`, `x || y` and `!!x`.
Truthy(x) ==
    CASE x.t = "undefined" -> FALSE
      [] x.t = "null" -> FALSE
      [] x.t = "NaN" -> FALSE
      [] x.t = "boolean" -> x.v
      [] x.t = "number" -> x.v # 0
      [] x.t = "string" -> x.v # <<>>
      [] OTHER -> TRUE

\* x || y
Or(x, y) == IF Truthy(x) THEN x ELSE y

(***************************************************************************)
(* String primitives.                                                      *)
(***************************************************************************)
Dash == <<"-">>

WhiteSpace == {" ", "\t", "\n", "\r"}
DecDigits == <<"0", "1", "2", "3", "4", "5", "6", "7", "8", "9">>
DigitChars == {DecDigits[i] : i \in 1..Len(DecDigits)}
HexChars == DigitChars \cup {"a", "b", "c", "d", "e", "f", "A", "B", "C", "D", "E", "F"}

DigitVal(c) == (CHOOSE i \in 1..Len(DecDigits) : DecDigits[i] = c) - 1

Sub(s, i, j) == IF j < i THEN <<>> ELSE SubSeq(s, i, j)

\* The end of the longest run of characters of `set` that starts at s[i]
\* (i - 1 when s[i] is not in `set`).
RunEnd(s, i, set) ==
    IF \E j \in i..Len(s) : s[j] \notin set
    THEN (CHOOSE j \in i..Len(s) : s[j] \notin set /\ \A k \in i..(j - 1) : s[k] \in set) - 1
    ELSE Len(s)

\* String.prototype.trim
Trim(s) ==
    LET a == RunEnd(s, 1, WhiteSpace) + 1
    IN  IF a > Len(s) THEN <<>>
        ELSE Sub(s, a, CHOOSE b \in a..Len(s) :
                          s[b] \notin WhiteSpace /\ \A k \in (b + 1)..Len(s) : s[k] \in WhiteSpace)

\* s.startsWith(p) at position i
MatchAt(s, i, p) == i + Len(p) - 1 <= Len(s) /\ Sub(s, i, i + Len(p) - 1) = p
StartsWith(s, p) == MatchAt(s, 1, p)

\* String.prototype.includes
Includes(s, p) == \E i \in 1..(Len(s) + 1) : MatchAt(s, i, p)

\* s.split(c)[0]: the text before the first c, the whole text when there is none.
SplitFirst(s, c) == Sub(s, 1, RunEnd(s, 1, {s[i] : i \in 1..Len(s)} \ {c}))

\* s.split(c)
RECURSIVE Split(_, _)
Split(s, c) ==
    LET e == RunEnd(s, 1, {s[i] : i \in 1..Len(s)} \ {c})
    IN  IF e = Len(s) THEN <<s>>
        ELSE <<Sub(s, 1, e)>> \o Split(Sub(s, e + 2, Len(s)), c)

\* The value of a run of decimal digits.
RECURSIVE DigitsValue(_)
DigitsValue(ds) ==
    IF ds = <<>> THEN 0
    ELSE 10 * DigitsValue(Sub(ds, 1, Len(ds) - 1)) + DigitVal(ds[Len(ds)])

\* parseInt(s, 10): leading white space, an optional sign, then the longest
\* run of digits; NaN when there is no digit.
ParseInt(s) ==
    LET a == RunEnd(s, 1, WhiteSpace) + 1
        signed == a <= Len(s) /\ s[a] \in {"+", "-"}
        b == IF signed THEN a + 1 ELSE a
        e == RunEnd(s, b, DigitChars)
    IN  IF e < b THEN NaN
        ELSE JNum((IF signed /\ s[a] = "-" THEN -1 ELSE 1) * DigitsValue(Sub(s, b, e)))

\* The decimal digits of a natural number.
RECURSIVE NatDigits(_)
NatDigits(n) ==
    IF n < 10 THEN <<DecDigits[n + 1]>>
    ELSE NatDigits(n \div 10) \o <<DecDigits[(n % 10) + 1]>>

\* String(n) for an integer n.
NumToString(n) == IF n < 0 THEN <<"-">> \o NatDigits(-n) ELSE NatDigits(n)


(***************************************************************************)
(* Promises: what an asynchronous call has settled to.                     *)
(***************************************************************************)
Pending == [state |-> "pending"]
Fulfilled(v) == [state |-> "fulfilled", value |-> v]
Rejected(e) == [state |-> "rejected", reason |-> e]

\* The result object of fs.exec: { code, stdout, message }.
ExecResult(code, stdout, message) ==
    [t |-> "object", code |-> code, stdout |-> stdout, message |-> message]

\* An Error object.
ErrorObj(message) == [t |-> "object", message |-> message]

(***************************************************************************)
(* The interface collector (part_000 loadInterfaceInfo, interface.js load) *)
(***************************************************************************)
IfName == <<"t", "a", "i", "l", "s", "c", "a", "l", "e", "0">>
ReInetMarker == <<"i", "n", "e", "t">>
ReInet6Marker == <<"i", "n", "e", "t", "6">>
LinkLocalPrefix == <<"f", "e", "8", "0">>
FormatPattern == <<"%", "1", "0", "2", "4", "m", "B">>

\* '%1024mB'.format(n).  String.prototype.format belongs to the host (LuCI),
\* not to this repository: its rendering is kept symbolic, as the pattern
\* applied to the number, which is never the text "-".
Format1024mB(n) == JStr(FormatPattern \o <<"(">> \o NumToString(n.v) \o <<")">>)

\* line.match(/^\s*<marker>\s+([<chars>]+)/): match[1], or null.
RegexMarkerAddr(line, marker, chars) ==
    LET a == RunEnd(line, 1, WhiteSpace) + 1
        b == a + Len(marker)
        c == RunEnd(line, b, WhiteSpace) + 1
        e == RunEnd(line, c, chars)
    IN  IF MatchAt(line, a, marker) /\ c > b /\ e >= c
        THEN JStr(Sub(line, c, e))
        ELSE JNull

\* line.match(/^\s*inet\s+([0-9.]+)/)
RegexInet(line) == RegexMarkerAddr(line, ReInetMarker, DigitChars \cup {"."})

\* line.match(/^\s*inet6\s+([0-9a-fA-F:]+)/)
RegexInet6(line) == RegexMarkerAddr(line, ReInet6Marker, HexChars \cup {":"})

\* Mutant of ScanLine: without the `!parsedInfo.ipv4` and `!parsedInfo.ipv6`
\* guards a later matching line replaces the address found.
ScanLineLastWins(info, line) ==
    LET ipv4Match == RegexInet(line)
        ipv6Match == RegexInet6(line)
        i1 == IF Truthy(ipv4Match) THEN [info EXCEPT !.ipv4 = ipv4Match] ELSE info
    IN  IF Truthy(ipv6Match) /\ ~StartsWith(ipv6Match.v, LinkLocalPrefix)
        THEN [i1 EXCEPT !.ipv6 = ipv6Match]
        ELSE i1

\* The body of `for (const line of lines)`.
ScanLine(info, line) ==
    LET ipv4Match == RegexInet(line)
        ipv6Match == RegexInet6(line)
        i1 == IF Truthy(ipv4Match) /\ ~Truthy(info.ipv4)
              THEN [info EXCEPT !.ipv4 = ipv4Match]
              ELSE info
    IN  IF Truthy(ipv6Match) /\ ~Truthy(i1.ipv6) /\ ~StartsWith(ipv6Match.v, LinkLocalPrefix)
        THEN [i1 EXCEPT !.ipv6 = ipv6Match]
        ELSE i1

RECURSIVE ScanLines(_, _)
ScanLines(info, lines) ==
    IF lines = <<>> THEN info
    ELSE ScanLines(ScanLine(info, Head(lines)), Tail(lines))

\* `!rxRes && !mtuRes && (!ipRes || ipRes.code !== 0)`
NoInterface(rxRes, mtuRes, ipRes) ==
    ~Truthy(rxRes) /\ ~Truthy(mtuRes) /\ (~Truthy(ipRes) \/ ipRes.code # JNum(0))

\* Mutant of BytesField: the read's failure is not told from a zero counter
\* ('%1024mB'.format(parseInt((rxRes || '').trim(), 10) || 0)).
BytesFieldZeroOnFailure(res) ==
    Format1024mB(Or(ParseInt(Trim(IF Truthy(res) THEN res.v ELSE <<>>)), JNum(0)))

\* rxRes ? '%1024mB'.format(parseInt(rxRes.trim(), 10) || 0) : '-'
BytesField(res) ==
    IF Truthy(res) THEN Format1024mB(Or(ParseInt(Trim(res.v)), JNum(0))) ELSE JStr(Dash)

\* mtuRes ? mtuRes.trim() : '-'
MtuField(res) == IF Truthy(res) THEN JStr(Trim(res.v)) ELSE JStr(Dash)

\* `if (ipRes && ipRes.code === 0 && ipRes.stdout) { ... }`, then the two defaults.
AddrFields(info, ipRes) ==
    LET scanned == IF Truthy(ipRes) /\ ipRes.code = JNum(0) /\ Truthy(ipRes.stdout)
                   THEN ScanLines(info, Split(ipRes.stdout.v, "\n"))
                   ELSE info
    IN  [scanned EXCEPT !.ipv4 = Or(scanned.ipv4, JStr(Dash)),
                        !.ipv6 = Or(scanned.ipv6, JStr(Dash))]

\* What follows the `await Promise.all([...])`: the value returned for the
\* four settled values, null when the interface does not exist.
ParsedInfo(rxRes, txRes, mtuRes, ipRes) ==
    IF NoInterface(rxRes, mtuRes, ipRes) THEN JNull
    ELSE AddrFields([t |-> "object",
                     name |-> JStr(IfName),
                     rxBytes |-> BytesField(rxRes),
                     txBytes |-> BytesField(txRes),
                     mtu |-> MtuField(mtuRes),
                     ipv4 |-> Undefined,
                     ipv6 |-> Undefined], ipRes)

\* Promise.all(ps), as far as ps have settled: rejected as soon as one of
\* them is, fulfilled with the values in the order of ps once all are.
PromiseAll(ps) ==
    IF \E i \in 1..Len(ps) : ps[i].state = "rejected"
    THEN ps[CHOOSE i \in 1..Len(ps) :
               ps[i].state = "rejected" /\ \A j \in 1..(i - 1) : ps[j].state # "rejected"]
    ELSE IF \E i \in 1..Len(ps) : ps[i].state = "pending" THEN Pending
    ELSE Fulfilled([i \in 1..Len(ps) |-> ps[i].value])

\* part_000 loadInterfaceInfo(), given what its four calls settled to.
loadInterfaceInfo(rx, tx, mtu, ip) ==
    LET all == PromiseAll(<<rx, tx, mtu, ip>>)
    IN  IF all.state # "fulfilled" THEN all
        ELSE Fulfilled(ParsedInfo(all.value[1], all.value[2], all.value[3], all.value[4]))

\* interface.js load(): the same body, returning [] or [parsedInfo].
InterfaceViewLoad(rx, tx, mtu, ip) ==
    LET all == PromiseAll(<<rx, tx, mtu, ip>>)
        info == ParsedInfo(all.value[1], all.value[2], all.value[3], all.value[4])
    IN  IF all.state # "fulfilled" THEN all
        ELSE Fulfilled(IF info = JNull THEN JArr(<<>>) ELSE JArr(<<info>>))

(***************************************************************************)
(* JSON.parse, on the text: objects, arrays, strings without escapes,      *)
(* integers, true, false, null, and white space between tokens.            *)
(***************************************************************************)
LitTrue == <<"t", "r", "u", "e">>
LitFalse == <<"f", "a", "l", "s", "e">>
LitNull == <<"n", "u", "l", "l">>
Quote == "\""

ParseFail == [ok |-> FALSE]
Parsed(v, p) == [ok |-> TRUE, val |-> v, pos |-> p]

SkipWs(s, i) == RunEnd(s, i, WhiteSpace) + 1

\* obj[key] = val: a new key is appended, an existing one keeps its place.
ObjSet(props, key, val) ==
    IF \E i \in 1..Len(props) : props[i][1] = key
    THEN [i \in 1..Len(props) |-> IF props[i][1] = key THEN <<key, val>> ELSE props[i]]
    ELSE Append(props, <<key, val>>)

\* A string token whose opening quote is s[i].
ParseString(s, i) ==
    LET e == RunEnd(s, i + 1, {s[k] : k \in 1..Len(s)} \ {Quote}) + 1
    IN  IF e > Len(s) THEN ParseFail ELSE Parsed(JStr(Sub(s, i + 1, e - 1)), e + 1)

\* An integer token that starts at s[i].
ParseNumber(s, i) ==
    LET neg == s[i] = "-"
        b == IF neg THEN i + 1 ELSE i
        run == RunEnd(s, b, DigitChars)
        e == IF b <= Len(s) /\ s[b] = "0" THEN b ELSE run
    IN  IF run < b THEN ParseFail
        ELSE Parsed(JNum((IF neg THEN -1 ELSE 1) * DigitsValue(Sub(s, b, e))), e + 1)

RECURSIVE ParseValue(_, _), ParseMembers(_, _, _), ParseElements(_, _, _)

\* A value that starts at or after s[i].
ParseValue(s, i) ==
    LET j == SkipWs(s, i)
    IN  IF j > Len(s) THEN ParseFail
        ELSE CASE s[j] = "{" ->
                    LET k == SkipWs(s, j + 1)
                    IN  IF k <= Len(s) /\ s[k] = "}" THEN Parsed(JObj(<<>>), k + 1)
                        ELSE ParseMembers(s, k, <<>>)
               [] s[j] = "[" ->
                    LET k == SkipWs(s, j + 1)
                    IN  IF k <= Len(s) /\ s[k] = "]" THEN Parsed(JArr(<<>>), k + 1)
                        ELSE ParseElements(s, k, <<>>)
               [] s[j] = Quote -> ParseString(s, j)
               [] s[j] \in DigitChars \cup {"-"} -> ParseNumber(s, j)
               [] MatchAt(s, j, LitTrue) -> Parsed(JBool(TRUE), j + Len(LitTrue))
               [] MatchAt(s, j, LitFalse) -> Parsed(JBool(FALSE), j + Len(LitFalse))
               [] MatchAt(s, j, LitNull) -> Parsed(JNull, j + Len(LitNull))
               [] OTHER -> ParseFail

\* The members of an object, the first of which starts at s[i].
ParseMembers(s, i, props) ==
    IF i > Len(s) \/ s[i] # Quote THEN ParseFail
    ELSE LET key == ParseString(s, i)
             c == SkipWs(s, key.pos)
             val == ParseValue(s, c + 1)
             d == SkipWs(s, val.pos)
             props2 == ObjSet(props, key.val.v, val.val)
         IN  IF ~key.ok \/ c > Len(s) \/ s[c] # ":" THEN ParseFail
             ELSE IF ~val.ok \/ d > Len(s) THEN ParseFail
             ELSE IF s[d] = "}" THEN Parsed(JObj(props2), d + 1)
             ELSE IF s[d] = "," THEN ParseMembers(s, SkipWs(s, d + 1), props2)
             ELSE ParseFail

\* The elements of an array, the first of which starts at s[i].
ParseElements(s, i, elems) ==
    LET val == ParseValue(s, i)
        d == SkipWs(s, val.pos)
    IN  IF ~val.ok \/ d > Len(s) THEN ParseFail
        ELSE IF s[d] = "]" THEN Parsed(JArr(Append(elems, val.val)), d + 1)
        ELSE IF s[d] = "," THEN ParseElements(s, d + 1, Append(elems, val.val))
        ELSE ParseFail

\* JSON.parse(s): the value, or ok = FALSE where it throws a SyntaxError.
JSONParse(s) ==
    LET r == ParseValue(s, 1)
    IN  IF r.ok /\ SkipWs(s, r.pos) > Len(s) THEN r ELSE ParseFail

(***************************************************************************)
(* The peer collector (part_000 loadPeerStatus).                           *)
(***************************************************************************)
MsgPermissionDenied ==
    <<"P", "e", "r", "m", "i", "s", "s", "i", "o", "n", " ", "d", "e", "n", "i", "e", "d", ":",
      " ", "E", "n", "s", "u", "r", "e", " ", "L", "u", "C", "I", " ", "h", "a", "s", " ", "a",
      "c", "c", "e", "s", "s", " ", "t", "o", " ", "r", "u", "n", " ", "\"", "t", "a", "i",
      "l", "s", "c", "a", "l", "e", " ", "s", "t", "a", "t", "u", "s", "\"", ".">>
MsgNotRunning ==
    <<"T", "a", "i", "l", "s", "c", "a", "l", "e", " ", "s", "e", "r", "v", "i", "c", "e", " ",
      "i", "s", " ", "n", "o", "t", " ", "r", "u", "n", "n", "i", "n", "g", ".">>
MsgUnablePrefix ==
    <<"U", "n", "a", "b", "l", "e", " ", "t", "o", " ", "g", "e", "t", " ", "T", "a", "i", "l",
      "s", "c", "a", "l", "e", " ", "s", "t", "a", "t", "u", "s", ":", " ">>
MsgEmptyOutput ==
    <<"T", "a", "i", "l", "s", "c", "a", "l", "e", " ", "s", "t", "a", "t", "u", "s", " ", "r",
      "e", "t", "u", "r", "n", "e", "d", " ", "e", "m", "p", "t", "y", " ", "o", "u", "t", "p",
      "u", "t", ".">>
MsgParsePrefix ==
    <<"E", "r", "r", "o", "r", " ", "p", "a", "r", "s", "i", "n", "g", " ", "T", "a", "i", "l",
      "s", "c", "a", "l", "e", " ", "s", "t", "a", "t", "u", "s", ":", " ">>
MsgFailedToExecute ==
    <<"F", "a", "i", "l", "e", "d", " ", "t", "o", " ", "e", "x", "e", "c", "u", "t", "e", " ",
      "t", "a", "i", "l", "s", "c", "a", "l", "e", " ", "c", "o", "m", "m", "a", "n", "d">>
MsgCommandFailed == <<"C", "o", "m", "m", "a", "n", "d", " ", "f", "a", "i", "l", "e", "d">>
NeedlePermission == <<"P", "e", "r", "m", "i", "s", "s", "i", "o", "n">>
NeedleNotRunning == <<"n", "o", "t", " ", "r", "u", "n", "n", "i", "n", "g">>
NeedleStopped == <<"s", "t", "o", "p", "p", "e", "d">>
KeyPeer == <<"P", "e", "e", "r">>
KeyDNSName == <<"D", "N", "S", "N", "a", "m", "e">>
KeyHostName == <<"H", "o", "s", "t", "N", "a", "m", "e">>
KeyTailscaleIPs == <<"T", "a", "i", "l", "s", "c", "a", "l", "e", "I", "P", "s">>
KeyOnline == <<"O", "n", "l", "i", "n", "e">>
KeyRelay == <<"R", "e", "l", "a", "y">>
KeyCurAddr == <<"C", "u", "r", "A", "d", "d", "r">>
KeyRxBytes == <<"R", "x", "B", "y", "t", "e", "s">>
KeyTxBytes == <<"T", "x", "B", "y", "t", "e", "s">>

\* The message of the error an expression throws is the engine's; the model
\* keeps the kind of the error.
SyntaxErrorMessage == JStr(<<"SyntaxError">>)
TypeErrorMessage == JStr(<<"TypeError">>)

Thrown(message) == [ok |-> FALSE, error |-> ErrorObj(message)]
Returned(v) == [ok |-> TRUE, value |-> v]

Nullish(x) == x.t \in {"undefined", "null"}

\* x[key] for x neither null nor undefined: an own property, else undefined.
Get(x, key) ==
    IF x.t = "object" /\ \E i \in 1..Len(x.v) : x.v[i][1] = key
    THEN x.v[CHOOSE i \in 1..Len(x.v) : x.v[i][1] = key][2]
    ELSE Undefined

\* x?.[0]
OptFirst(x) ==
    CASE x.t = "array" /\ x.v # <<>> -> x.v[1]
      [] x.t = "string" /\ x.v # <<>> -> JStr(<<x.v[1]>>)
      [] x.t = "object" -> Get(x, <<"0">>)
      [] OTHER -> Undefined

\* Object.values(x) for x neither null nor undefined.
ObjectValues(x) ==
    CASE x.t = "object" -> [i \in 1..Len(x.v) |-> x.v[i][2]]
      [] x.t = "array" -> x.v
      [] x.t = "string" -> [i \in 1..Len(x.v) |-> JStr(<<x.v[i]>>)]
      [] OTHER -> <<>>

\* Mutant of HostnameOf: the HostName field is preferred to the DNS name.
HostnameOfHostNameFirst(peer) ==
    LET dns == Get(peer, KeyDNSName)
        host == Get(peer, KeyHostName)
    IN  IF Truthy(host) THEN host
        ELSE IF Truthy(dns) THEN JStr(SplitFirst(dns.v, "."))
        ELSE JStr(Dash)

\* peer.DNSName ? peer.DNSName.split('.')[0] : (peer.HostName || '-')
HostnameOf(peer) ==
    LET dns == Get(peer, KeyDNSName)
    IN  IF Truthy(dns) THEN JStr(SplitFirst(dns.v, "."))
        ELSE Or(Get(peer, KeyHostName), JStr(Dash))

\* peer.RxBytes ? '%1024mB'.format(peer.RxBytes) : '-'
PeerBytesField(raw) == IF Truthy(raw) THEN Format1024mB(raw) ELSE JStr(Dash)

\* The body of `for (const peer of Object.values(peers))`: the summary
\* pushed, or the TypeError thrown (a property of null or undefined is
\* read, or split is called on a DNSName that is not a string).
PeerSummary(peer) ==
    IF Nullish(peer) THEN Thrown(TypeErrorMessage)
    ELSE IF Truthy(Get(peer, KeyDNSName)) /\ ~IsString(Get(peer, KeyDNSName))
    THEN Thrown(TypeErrorMessage)
    ELSE Returned([t |-> "object",
                   ip |-> Or(OptFirst(Get(peer, KeyTailscaleIPs)), JStr(Dash)),
                   hostname |-> HostnameOf(peer),
                   online |-> Get(peer, KeyOnline),
                   relay |-> Or(Get(peer, KeyRelay), JStr(Dash)),
                   direct |-> JBool(Truthy(Get(peer, KeyCurAddr))),
                   rxBytes |-> PeerBytesField(Get(peer, KeyRxBytes)),
                   txBytes |-> PeerBytesField(Get(peer, KeyTxBytes))])

ErrorResult(text) == [t |-> "object", error |-> JStr(text)]
PeersResult(list) == [t |-> "object", peers |-> JArr(list)]

\* Mutant of ParsePeers: without the `|| {}` default a document that has no
\* `Peer` field makes Object.values throw.
ParsePeersNoDefault(stdout) ==
    LET parsed == JSONParse(stdout)
        statusJson == parsed.val
        peers == Get(statusJson, KeyPeer)
        values == ObjectValues(peers)
        pushed == [i \in 1..Len(values) |-> PeerSummary(values[i])]
    IN  IF ~parsed.ok THEN ErrorResult(MsgParsePrefix \o SyntaxErrorMessage.v)
        ELSE IF Nullish(statusJson) \/ Nullish(peers)
        THEN ErrorResult(MsgParsePrefix \o TypeErrorMessage.v)
        ELSE IF \E i \in 1..Len(values) : ~pushed[i].ok
        THEN ErrorResult(MsgParsePrefix \o TypeErrorMessage.v)
        ELSE PeersResult([i \in 1..Len(values) |-> pushed[i].value])

\* The `try { ... } catch (e) { ... }` of loadPeerStatus.
ParsePeers(stdout) ==
    LET parsed == JSONParse(stdout)
        statusJson == parsed.val
        peers == Or(Get(statusJson, KeyPeer), JObj(<<>>))
        values == ObjectValues(peers)
        pushed == [i \in 1..Len(values) |-> PeerSummary(values[i])]
    IN  IF ~parsed.ok THEN ErrorResult(MsgParsePrefix \o SyntaxErrorMessage.v)
        ELSE IF Nullish(statusJson) THEN ErrorResult(MsgParsePrefix \o TypeErrorMessage.v)
        ELSE IF \E i \in 1..Len(values) : ~pushed[i].ok
        THEN ErrorResult(MsgParsePrefix \o
                 pushed[CHOOSE i \in 1..Len(values) :
                            ~pushed[i].ok /\ \A j \in 1..(i - 1) : pushed[j].ok].error.message.v)
        ELSE PeersResult([i \in 1..Len(values) |-> pushed[i].value])

\* `.catch(err => ({ code: 1, message: err.message || '...' }))`
CatchExec(settled) ==
    IF settled.state = "rejected"
    THEN Fulfilled(ExecResult(JNum(1), Undefined,
                              Or(settled.reason.message, JStr(MsgFailedToExecute))))
    ELSE settled

\* Mutant of FailureResult: "not running" and "stopped" are tested before
\* "Permission".
FailureResultStoppedFirst(statusRes) ==
    LET message == IF IsString(statusRes.message) THEN statusRes.message.v
                   ELSE MsgCommandFailed
    IN  IF Includes(message, NeedleNotRunning) \/ Includes(message, NeedleStopped)
        THEN ErrorResult(MsgNotRunning)
        ELSE IF Includes(message, NeedlePermission) THEN ErrorResult(MsgPermissionDenied)
        ELSE ErrorResult(MsgUnablePrefix \o message)

\* `if (statusRes.code !== 0) { ... }`: the error record for a failed command.
FailureResult(statusRes) ==
    LET message == IF IsString(statusRes.message) THEN statusRes.message.v
                   ELSE MsgCommandFailed
    IN  IF Includes(message, NeedlePermission) THEN ErrorResult(MsgPermissionDenied)
        ELSE IF Includes(message, NeedleNotRunning) \/ Includes(message, NeedleStopped)
        THEN ErrorResult(MsgNotRunning)
        ELSE ErrorResult(MsgUnablePrefix \o message)

\* Mutant of loadPeerStatus: the output is not trimmed before it is tested
\* for emptiness (`if (!statusRes.stdout)`).
loadPeerStatusNoTrim(status) ==
    LET statusRes == CatchExec(status).value
    IN  IF status.state = "pending" THEN Pending
        ELSE IF Nullish(statusRes) THEN Rejected(ErrorObj(TypeErrorMessage))
        ELSE IF statusRes.code # JNum(0) THEN Fulfilled(FailureResult(statusRes))
        ELSE IF ~Truthy(statusRes.stdout) THEN Fulfilled(ErrorResult(MsgEmptyOutput))
        ELSE Fulfilled(ParsePeers(statusRes.stdout.v))

\* part_000 loadPeerStatus(), given what fs.exec settled to.
loadPeerStatus(status) ==
    LET statusRes == CatchExec(status).value
    IN  IF status.state = "pending" THEN Pending
        ELSE IF Nullish(statusRes) THEN Rejected(ErrorObj(TypeErrorMessage))
        ELSE IF statusRes.code # JNum(0) THEN Fulfilled(FailureResult(statusRes))
        ELSE IF ~Truthy(statusRes.stdout) \/ Trim(statusRes.stdout.v) = <<>>
        THEN Fulfilled(ErrorResult(MsgEmptyOutput))
        ELSE Fulfilled(ParsePeers(statusRes.stdout.v))

\* part_000 load(), given the two collectors' promises.
load(interfaceP, peerStatusP) ==
    LET all == PromiseAll(<<interfaceP, peerStatusP>>)
    IN  IF all.state # "fulfilled" THEN all
        ELSE Fulfilled([t |-> "object",
                        interfaceInfo |-> all.value[1],
                        peerStatus |-> all.value[2]])

(***************************************************************************)
(* The environment: the outcomes of the five sources.  An outcome records  *)
(* what happened at the source (did the read succeed, which lines did the  *)
(* address command print, which document did the status command print);    *)
(* the code sees only what the fs call settles to.                         *)
(***************************************************************************)
LineInet4 ==
    <<" ", " ", " ", " ", "i", "n", "e", "t", " ", "1", "0", "0", ".", "8", "0", ".", "5", "2",
      ".", "1", "/", "3", "2", " ", "s", "c", "o", "p", "e", " ", "g", "l", "o", "b", "a", "l",
      " ", "t", "a", "i", "l", "s", "c", "a", "l", "e", "0">>
LineInet4b == <<"i", "n", "e", "t", " ", "1", "0", ".", "0", ".", "0", ".", "2", "/", "8">>
LineInet6LinkLocal ==
    <<" ", " ", " ", " ", "i", "n", "e", "t", "6", " ", "f", "e", "8", "0", ":", ":", "1", "/",
      "6", "4", " ", "s", "c", "o", "p", "e", " ", "l", "i", "n", "k">>
LineInet6Global ==
    <<" ", " ", " ", " ", "i", "n", "e", "t", "6", " ", "f", "d", "7", "a", ":", "1", "1", "5",
      "c", ":", "a", "1", "e", "0", ":", ":", "9", "f", "0", "1", ":", "1", "5", "6", "0", "/",
      "1", "2", "8", " ", "s", "c", "o", "p", "e", " ", "g", "l", "o", "b", "a", "l">>
LineInet6b == <<"i", "n", "e", "t", "6", " ", "f", "d", "0", "0", ":", ":", "2", "/", "6", "4">>
LineHeader ==
    <<"7", ":", " ", "t", "a", "i", "l", "s", "c", "a", "l", "e", "0", ":", " ", "m", "t", "u",
      " ", "1", "2", "8", "0">>
LineInetNoAddr == <<"i", "n", "e", "t", "\t", "b", "r", "d">>
Addr4 == <<"1", "0", "0", ".", "8", "0", ".", "5", "2", ".", "1">>
Addr4b == <<"1", "0", ".", "0", ".", "0", ".", "2">>
Addr6LinkLocal == <<"f", "e", "8", "0", ":", ":", "1">>
Addr6 ==
    <<"f", "d", "7", "a", ":", "1", "1", "5", "c", ":", "a", "1", "e", "0", ":", ":", "9", "f",
      "0", "1", ":", "1", "5", "6", "0">>
Addr6b == <<"f", "d", "0", "0", ":", ":", "2">>
TextMiB == <<"1", "0", "4", "8", "5", "7", "6", "\n">>
TextZero == <<"0", "\n">>
TextGarbage == <<"a", "b", "c", "\n">>
TextPrefixed == <<"1", "2", "a", "b", "c", "\n">>
TextMtu == <<" ", "1", "2", "8", "0", "\n">>
TextMtuTrimmed == <<"1", "2", "8", "0">>

\* fs.read of a counter file: the read fails, or yields the file's text.
\* `count` is the integer the text starts with (0 when it starts with none).
CounterOutcomes ==
    { [ok |-> FALSE, text |-> <<>>, kind |-> "failed", count |-> 0],
      [ok |-> TRUE, text |-> TextMiB, kind |-> "number", count |-> 1048576],
      [ok |-> TRUE, text |-> TextZero, kind |-> "number", count |-> 0],
      [ok |-> TRUE, text |-> TextGarbage, kind |-> "garbage", count |-> 0],
      [ok |-> TRUE, text |-> TextPrefixed, kind |-> "prefixed", count |-> 12],
      [ok |-> TRUE, text |-> <<>>, kind |-> "empty", count |-> 0] }

\* fs.read of the mtu file.
MtuOutcomes ==
    { [ok |-> FALSE, text |-> <<>>, kind |-> "failed", trimmed |-> <<>>],
      [ok |-> TRUE, text |-> TextMtu, kind |-> "number", trimmed |-> TextMtuTrimmed],
      [ok |-> TRUE, text |-> <<>>, kind |-> "empty", trimmed |-> <<>>] }

\* What fs.read settles to: the text, or the falsy failure indicator.
ReadSettles(o) == Fulfilled(IF o.ok THEN JStr(o.text) ELSE JNull)

\* The lines `ip addr show` can print, with what each one is.
AddrLines ==
    { [text |-> LineInet4, marker |-> "inet", addr |-> Addr4, linkLocal |-> FALSE],
      [text |-> LineInet4b, marker |-> "inet", addr |-> Addr4b, linkLocal |-> FALSE],
      [text |-> LineInet6LinkLocal, marker |-> "inet6", addr |-> Addr6LinkLocal,
       linkLocal |-> TRUE],
      [text |-> LineInet6Global, marker |-> "inet6", addr |-> Addr6, linkLocal |-> FALSE],
      [text |-> LineInet6b, marker |-> "inet6", addr |-> Addr6b, linkLocal |-> FALSE],
      [text |-> LineHeader, marker |-> "none", addr |-> <<>>, linkLocal |-> FALSE],
      [text |-> LineInetNoAddr, marker |-> "none", addr |-> <<>>, linkLocal |-> FALSE] }

SeqsUpTo(S, n) == UNION {[1..k -> S] : k \in 0..n}

\* The text a command prints for a sequence of lines: each line ended by "\n".
RECURSIVE PrintLines(_)
PrintLines(lines) ==
    IF lines = <<>> THEN <<>>
    ELSE Head(lines).text \o <<"\n">> \o PrintLines(Tail(lines))

\* The address command exits 0 with some lines, exits non-zero (with or
\* without output), or cannot be executed (fs.exec rejects).
IpOutcomesOver(lineSeqs) ==
    { [how |-> "raise", code |-> 1, lines |-> <<>>] }
    \cup { [how |-> "exit", code |-> 1, lines |-> ls] :
             ls \in {l \in lineSeqs : Len(l) <= 1 /\ \A i \in 1..Len(l) : l[i].marker = "inet"} }
    \cup { [how |-> "exit", code |-> 0, lines |-> ls] : ls \in lineSeqs }

IpOutcomes == IpOutcomesOver(SeqsUpTo(AddrLines, MaxLines))

RaiseText ==
    <<"C", "o", "m", "m", "a", "n", "d", " ", "n", "o", "t", " ", "f", "o", "u", "n", "d">>
ExecError == ErrorObj(JStr(RaiseText))

\* What fs.exec('/sbin/ip', ...) settles to.
IpSettles(o) ==
    IF o.how = "raise" THEN Rejected(ExecError)
    ELSE Fulfilled(ExecResult(JNum(o.code), JStr(PrintLines(o.lines)), Undefined))

TextFqdn ==
    <<"n", "o", "d", "e", "1", ".", "t", "a", "i", "l", "n", "e", "t", "x", "y", "z", ".", "t",
      "s", ".", "n", "e", "t", ".">>
TextNode1 == <<"n", "o", "d", "e", "1">>
TextBare == <<"n", "o", "d", "e", "2">>
TextHost == <<"h", "o", "s", "t", "1">>
TextIp == <<"1", "0", "0", ".", "1", ".", "2", ".", "3">>
TextIp6 == <<"f", "d", "7", "a", ":", ":", "1">>
TextRelay == <<"f", "r", "a">>
TextCurAddr == <<"1", ".", "2", ".", "3", ".", "4", ":", "4", "1", "6", "4", "1">>
KeyVersion == <<"V", "e", "r", "s", "i", "o", "n">>
TextVersion == <<"1", ".", "6", "0">>
FragPermission ==
    <<"P", "e", "r", "m", "i", "s", "s", "i", "o", "n", " ", "d", "e", "n", "i", "e", "d">>
FragNotRunning ==
    <<"t", "a", "i", "l", "s", "c", "a", "l", "e", "d", " ", "i", "s", " ", "n", "o", "t", " ",
      "r", "u", "n", "n", "i", "n", "g">>
FragStopped == <<"s", "e", "r", "v", "i", "c", "e", " ", "s", "t", "o", "p", "p", "e", "d">>
FragOther == <<"e", "x", "i", "t", " ", "s", "t", "a", "t", "u", "s", " ", "1">>
FragLower == <<"p", "e", "r", "m", "i", "s", "s", "i", "o", "n">>
FragSeparator == <<";", " ">>
TextBlank == <<" ", "\n">>
TextTruncated == <<"{", "\"", "P", "e", "e", "r", "\"", ":", " ", "{">>
TextNotJson ==
    <<"f", "a", "i", "l", "e", "d", " ", "t", "o", " ", "c", "o", "n", "n", "e", "c", "t">>
TextTrailing == <<"{", "}", " ", "x">>


\* A peer record is described by what each of its fields is: "absent", its
\* usual value ("set"; for DNSName "fqdn", for Online "true"), or a variant.
PeerFields == {"dns", "host", "ips", "online", "relay", "cur", "rx", "tx"}
Primary(f) == CASE f = "dns" -> "fqdn" [] f = "online" -> "true" [] OTHER -> "set"

FullRecipe == [f \in PeerFields |-> Primary(f)]

\* Every subset of the fields present, the others absent.
SubsetRecipes ==
    { [f \in PeerFields |-> IF f \in S THEN Primary(f) ELSE "absent"] : S \in SUBSET PeerFields }

\* The full record with one field (or two) changed to a variant.
VariantRecipes ==
    { [FullRecipe EXCEPT !.dns = "empty"],
      [FullRecipe EXCEPT !.dns = "empty", !.host = "empty"],
      [FullRecipe EXCEPT !.dns = "bare"],
      [FullRecipe EXCEPT !.online = "false"],
      [FullRecipe EXCEPT !.ips = "none"],
      [FullRecipe EXCEPT !.relay = "empty"],
      [FullRecipe EXCEPT !.cur = "empty"],
      [FullRecipe EXCEPT !.rx = "zero", !.tx = "zero"] }

\* The records that documents of several peers are assembled from.
ListRecipes ==
    { FullRecipe,
      [f \in PeerFields |-> "absent"],
      [FullRecipe EXCEPT !.dns = "bare", !.cur = "absent"],
      [FullRecipe EXCEPT !.dns = "absent", !.online = "false", !.rx = "zero"] }

PeerLists ==
    SeqsUpTo(ListRecipes, MaxPeers) \cup { <<r>> : r \in SubsetRecipes \cup VariantRecipes }

Prop(present, key, val) == IF present THEN << <<key, val>> >> ELSE <<>>

\* The JSON value of a peer record.
PeerValue(r) ==
    JObj(Prop(r.host # "absent", KeyHostName, JStr(IF r.host = "set" THEN TextHost ELSE <<>>))
      \o Prop(r.dns # "absent", KeyDNSName,
              JStr(CASE r.dns = "fqdn" -> TextFqdn [] r.dns = "bare" -> TextBare [] OTHER -> <<>>))
      \o Prop(r.ips # "absent", KeyTailscaleIPs,
              JArr(IF r.ips = "set" THEN <<JStr(TextIp), JStr(TextIp6)>> ELSE <<>>))
      \o Prop(r.online # "absent", KeyOnline, JBool(r.online = "true"))
      \o Prop(r.relay # "absent", KeyRelay, JStr(IF r.relay = "set" THEN TextRelay ELSE <<>>))
      \o Prop(r.cur # "absent", KeyCurAddr, JStr(IF r.cur = "set" THEN TextCurAddr ELSE <<>>))
      \o Prop(r.rx # "absent", KeyRxBytes, JNum(IF r.rx = "set" THEN 2097152 ELSE 0))
      \o Prop(r.tx # "absent", KeyTxBytes, JNum(IF r.tx = "set" THEN 1024 ELSE 0)))

\* The documents the status command can print: a status with a `Peer`
\* mapping, a status without one, and documents of another shape.
StatusDocs ==
    { [kind |-> "peers", peers |-> ps] : ps \in PeerLists }
    \cup { [kind |-> k, peers |-> <<>>] :
             k \in {"noPeerField", "peerFieldNull", "nullDocument", "arrayDocument",
                    "nullRecord", "numericDNSName"} }

PeerKey(i) == <<"k">> \o NatDigits(i)

DocValue(d) ==
    LET version == <<KeyVersion, JStr(TextVersion)>>
    IN  CASE d.kind = "peers" ->
               JObj(<<version,
                      <<KeyPeer, JObj([i \in 1..Len(d.peers) |->
                                          <<PeerKey(i), PeerValue(d.peers[i])>>])>> >>)
          [] d.kind = "noPeerField" -> JObj(<<version>>)
          [] d.kind = "peerFieldNull" -> JObj(<<version, <<KeyPeer, JNull>> >>)
          [] d.kind = "nullDocument" -> JNull
          [] d.kind = "arrayDocument" -> JArr(<<JNum(1), JBool(FALSE)>>)
          [] d.kind = "nullRecord" ->
               JObj(<<version, <<KeyPeer, JObj(<< <<PeerKey(1), JNull>> >>)>> >>)
          [] d.kind = "numericDNSName" ->
               JObj(<<version,
                      <<KeyPeer, JObj(<< <<PeerKey(1), JObj(<< <<KeyDNSName, JNum(7)>> >>)>> >>)>> >>)

\* The text of a JSON value, as the status command prints it.
RECURSIVE JSONText(_), JSONJoin(_, _)
JSONText(v) ==
    CASE v.t = "null" -> LitNull
      [] v.t = "boolean" -> IF v.v THEN LitTrue ELSE LitFalse
      [] v.t = "number" -> NumToString(v.v)
      [] v.t = "string" -> <<Quote>> \o v.v \o <<Quote>>
      [] v.t = "array" -> <<"[">> \o JSONJoin(v.v, FALSE) \o <<"]">>
      [] v.t = "object" -> <<"{">> \o JSONJoin(v.v, TRUE) \o <<"}">>

JSONJoin(items, keyed) ==
    IF items = <<>> THEN <<>>
    ELSE (IF keyed THEN <<Quote>> \o Head(items)[1] \o <<Quote, ":", " ">> \o JSONText(Head(items)[2])
          ELSE JSONText(Head(items)))
         \o (IF Len(items) > 1 THEN <<",", "\n">> ELSE <<>>)
         \o JSONJoin(Tail(items), keyed)

\* A failure message is a sequence of fragments joined by "; ".
Fragments ==
    { [text |-> FragPermission, permission |-> TRUE, stopped |-> FALSE],
      [text |-> FragNotRunning, permission |-> FALSE, stopped |-> TRUE],
      [text |-> FragStopped, permission |-> FALSE, stopped |-> TRUE],
      [text |-> FragOther, permission |-> FALSE, stopped |-> FALSE],
      [text |-> FragLower, permission |-> FALSE, stopped |-> FALSE] }

RECURSIVE MessageText(_)
MessageText(frags) ==
    IF frags = <<>> THEN <<>>
    ELSE Head(frags).text
         \o (IF Len(frags) > 1 THEN FragSeparator ELSE <<>>)
         \o MessageText(Tail(frags))

\* The message of a failure: none, or a text.
Messages ==
    { [has |-> FALSE, frags |-> <<>>] }
    \cup { [has |-> TRUE, frags |-> fs] : fs \in SeqsUpTo(Fragments, MaxFrags) }

MessageValue(m) == IF m.has THEN JStr(MessageText(m.frags)) ELSE Undefined

\* What the status command leaves on standard output.
Outputs ==
    { [kind |-> "absent", text |-> <<>>, doc |-> [kind |-> "none", peers |-> <<>>]] }
    \cup { [kind |-> k, text |-> t, doc |-> [kind |-> "none", peers |-> <<>>]] :
             k \in {"blank"}, t \in {<<>>, TextBlank} }
    \cup { [kind |-> k, text |-> t, doc |-> [kind |-> "none", peers |-> <<>>]] :
             k \in {"notJson"}, t \in {TextTruncated, TextNotJson, TextTrailing} }
    \cup { [kind |-> "json", text |-> JSONText(DocValue(d)) \o <<"\n">>, doc |-> d] :
             d \in StatusDocs }

StdoutValue(out) == IF out.kind = "absent" THEN Undefined ELSE JStr(out.text)

\* The status command cannot be executed (fs.exec rejects), exits non-zero,
\* or exits 0.
StatusOutcomes ==
    { [how |-> "raise", code |-> 1, msg |-> m, out |-> o] :
        m \in Messages, o \in {o \in Outputs : o.kind = "absent"} }
    \cup { [how |-> "exit", code |-> 1, msg |-> m, out |-> o] :
             m \in Messages,
             o \in {o \in Outputs : o.kind = "absent"
                                    \/ (o.kind = "json" /\ o.doc.kind = "peers"
                                        /\ o.doc.peers = <<FullRecipe>>)} }
    \cup { [how |-> "exit", code |-> 0, msg |-> m, out |-> o] :
             m \in {m \in Messages : ~m.has}, o \in Outputs }

\* What fs.exec('tailscale', ['status', '--json']) settles to.
StatusSettles(o) ==
    IF o.how = "raise" THEN Rejected(ErrorObj(MessageValue(o.msg)))
    ELSE Fulfilled(ExecResult(JNum(o.code), StdoutValue(o.out), MessageValue(o.msg)))

(***************************************************************************)
(* The refresh cycle of the status view (part_000 load, pollData): the     *)
(* five fs calls of a load settle one at a time, in any order.             *)
(***************************************************************************)
Sources == {"rx", "tx", "mtu", "ip", "status"}

NoSlots == [s \in Sources |-> Pending]

\* What the fs call for source s settles to in this cycle.
Settles(o, s) ==
    CASE s = "ip" -> IpSettles(o.ip)
      [] s = "status" -> StatusSettles(o.status)
      [] OTHER -> ReadSettles(o[s])

\* The source failed: the read failed, the command raised or exited non-zero.
Failed(o, s) ==
    CASE s = "ip" -> o.ip.how = "raise" \/ o.ip.code # 0
      [] s = "status" -> o.status.how = "raise" \/ o.status.code # 0
      [] OTHER -> ~o[s].ok

FailedSources(o) == {s \in Sources : Failed(o, s)}

\* The outcomes a refresh cycle draws from.
CycleCounters == {o \in CounterOutcomes : o.kind = "failed" \/ o.text = TextMiB}
CycleMtus == {o \in MtuOutcomes : o.kind # "empty"}
CycleIps ==
    {o \in IpOutcomesOver({<<>>} \cup {<<l>> : l \in {l \in AddrLines : l.addr = Addr4}}) :
        o.how = "raise" \/ o.lines # <<>>}
CycleStatuses ==
    {o \in StatusOutcomes :
        \/ o.how = "raise" /\ o.msg.has /\ Len(o.msg.frags) = 1 /\ o.msg.frags[1].permission
        \/ o.how = "exit" /\ o.code # 0 /\ o.out.kind = "absent"
           /\ o.msg.has /\ Len(o.msg.frags) = 1 /\ o.msg.frags[1].text = FragNotRunning
        \/ o.how = "exit" /\ o.code = 0 /\ o.out.doc.kind = "peers"
           /\ o.out.doc.peers = <<FullRecipe>>}

CycleOutcomes ==
    [rx : CycleCounters, tx : CycleCounters, mtu : CycleMtus, ip : CycleIps,
     status : CycleStatuses]

\* Before the first load nothing has been asked of the sources.
NoOutcome ==
    [rx |-> CHOOSE o \in CounterOutcomes : ~o.ok,
     tx |-> CHOOSE o \in CounterOutcomes : ~o.ok,
     mtu |-> CHOOSE o \in MtuOutcomes : ~o.ok,
     ip |-> CHOOSE o \in IpOutcomes : o.how = "raise",
     status |-> CHOOSE o \in StatusOutcomes : o.how = "raise" /\ ~o.msg.has]

\* Mutant of Tick: the MTU read is cached, its value of the cycle before is
\* reused instead of read again.
TickKeepsMtu ==
    /\ pc \in {"idle", "done"}
    /\ \A s \in Sources : pc = "done" => slot[s] # Pending
    /\ cycle < MaxCycles
    /\ \E o \in CycleOutcomes : outcome' = o
    /\ prev' = IF pc = "idle" THEN {} ELSE FailedSources(outcome)
    /\ cycle' = cycle + 1
    /\ slot' = [NoSlots EXCEPT !["mtu"] = slot["mtu"]]
    /\ first' = "none"
    /\ ifaceP' = Pending
    /\ peerP' = Pending
    /\ loadP' = Pending
    /\ pc' = "loading"
    /\ UNCHANGED view

\* A poll tick (or the first display) calls load(): the five calls start.
Tick ==
    /\ pc \in {"idle", "done"}
    /\ \A s \in Sources : pc = "done" => slot[s] # Pending
    /\ cycle < MaxCycles
    /\ \E o \in CycleOutcomes : outcome' = o
    /\ prev' = IF pc = "idle" THEN {} ELSE FailedSources(outcome)
    /\ cycle' = cycle + 1
    /\ slot' = NoSlots
    /\ first' = "none"
    /\ ifaceP' = Pending
    /\ peerP' = Pending
    /\ loadP' = Pending
    /\ pc' = "loading"
    /\ UNCHANGED view

\* A promise that has settled stays as it is.
Once(p, q) == IF p.state # "pending" THEN p ELSE q

\* The fs call for source s settles; the continuations that wait for it run.
Settle(s) ==
    /\ pc \in {"loading", "done"}
    /\ slot[s] = Pending
    /\ slot' = [slot EXCEPT ![s] = Settles(outcome, s)]
    /\ first' = IF first = "none" THEN s ELSE first
    /\ ifaceP' = Once(ifaceP, loadInterfaceInfo(slot'["rx"], slot'["tx"], slot'["mtu"], slot'["ip"]))
    /\ peerP' = Once(peerP, loadPeerStatus(slot'["status"]))
    /\ loadP' = Once(loadP, load(ifaceP', peerP'))
    /\ UNCHANGED <<view, pc, cycle, outcome, prev>>

\* `const data = await this.load()` resumes: the data is rendered, or the
\* rejection is thrown out of the poll callback.
Resume ==
    /\ pc = "loading"
    /\ loadP.state # "pending"
    /\ pc' = "done"
    /\ UNCHANGED <<view, cycle, outcome, slot, first, ifaceP, peerP, loadP, prev>>

Init ==
    /\ view = "status"
    /\ pc = "idle"
    /\ cycle = 0
    /\ outcome = NoOutcome
    /\ slot = NoSlots
    /\ first = "none"
    /\ ifaceP = Pending
    /\ peerP = Pending
    /\ loadP = Pending
    /\ prev = {}

Next ==
    \/ Tick
    \/ \E s \in Sources : Settle(s)
    \/ Resume

Spec == Init /\ [][Next]_vars

(***************************************************************************)
(* The interface collector alone, over every outcome of its four sources:  *)
(* one call of part_000 loadInterfaceInfo() or of interface.js load().     *)
(***************************************************************************)
IfaceOutcomes ==
    [rx : CounterOutcomes, tx : CounterOutcomes, mtu : MtuOutcomes, ip : IpOutcomes,
     status : {NoOutcome.status}]

InitIface ==
    /\ view = "none"
    /\ pc = "idle"
    /\ cycle = 0
    /\ outcome \in IfaceOutcomes
    /\ slot = NoSlots
    /\ first = "none"
    /\ ifaceP = Pending
    /\ peerP = Pending
    /\ loadP = Pending
    /\ prev = {}

\* The status view's collector runs to its end.
RunLoadInterfaceInfo ==
    /\ pc = "idle"
    /\ view' = "status"
    /\ ifaceP' = loadInterfaceInfo(ReadSettles(outcome.rx), ReadSettles(outcome.tx),
                                   ReadSettles(outcome.mtu), IpSettles(outcome.ip))
    /\ pc' = "done"
    /\ UNCHANGED <<cycle, outcome, slot, first, peerP, loadP, prev>>

\* The interface view's load runs to its end.
RunInterfaceViewLoad ==
    /\ pc = "idle"
    /\ view' = "interface"
    /\ ifaceP' = InterfaceViewLoad(ReadSettles(outcome.rx), ReadSettles(outcome.tx),
                                   ReadSettles(outcome.mtu), IpSettles(outcome.ip))
    /\ pc' = "done"
    /\ UNCHANGED <<cycle, outcome, slot, first, peerP, loadP, prev>>

NextIface == RunLoadInterfaceInfo \/ RunInterfaceViewLoad

SpecIface == InitIface /\ [][NextIface]_vars

(***************************************************************************)
(* The peer collector alone, over every outcome of the status command:     *)
(* one call of part_000 loadPeerStatus().                                  *)
(***************************************************************************)
InitPeer ==
    /\ view = "status"
    /\ pc = "idle"
    /\ cycle = 0
    /\ outcome \in [rx : {NoOutcome.rx}, tx : {NoOutcome.tx}, mtu : {NoOutcome.mtu},
                    ip : {NoOutcome.ip}, status : StatusOutcomes]
    /\ slot = NoSlots
    /\ first = "none"
    /\ ifaceP = Pending
    /\ peerP = Pending
    /\ loadP = Pending
    /\ prev = {}

RunLoadPeerStatus ==
    /\ pc = "idle"
    /\ peerP' = loadPeerStatus(StatusSettles(outcome.status))
    /\ pc' = "done"
    /\ UNCHANGED <<view, cycle, outcome, slot, first, ifaceP, loadP, prev>>

NextPeer == RunLoadPeerStatus

SpecPeer == InitPeer /\ [][NextPeer]_vars

(***************************************************************************)
(* Properties of the interface collector, checked under SpecIface.         *)
(***************************************************************************)
\* The collector's outcome: no interface (null, or [] in the interface view),
\* or an InterfaceInfo record.
InfoAbsent ==
    /\ ifaceP.state = "fulfilled"
    /\ ifaceP.value = (IF view = "interface" THEN JArr(<<>>) ELSE JNull)
InfoPresent == ifaceP.state = "fulfilled" /\ ~InfoAbsent
Info == IF view = "interface" THEN ifaceP.value.v[1] ELSE ifaceP.value

IpFailed(o) == o.how = "raise" \/ o.code # 0

\* C2 (as claimed): the collector yields the no-interface outcome if and only
\* if the RX read failed, the MTU read failed and the address command failed
\* to execute or exited non-zero; in every other combination it yields a
\* present InterfaceInfo record (so the TX read never decides the outcome).
C2_AbsentIffAllThreeFailed ==
    pc = "done" =>
        IF ~outcome.rx.ok /\ ~outcome.mtu.ok /\ IpFailed(outcome.ip)
        THEN InfoAbsent
        ELSE InfoPresent

\* How a counter's text reads: the integer it starts with, zero without one.
IsNumeric(o) == o.kind = "number"

\* C3 (as claimed): in every present InterfaceInfo a field is "-" exactly
\* when its own read failed; a counter read that succeeded is shown as the
\* formatted byte count, non-numeric content as the formatted zero.
C3_DashIffReadFailed ==
    (pc = "done" /\ InfoPresent) =>
        /\ \A f \in {"rx", "tx"} :
              LET field == IF f = "rx" THEN Info.rxBytes ELSE Info.txBytes
              IN  /\ (field = JStr(Dash)) <=> ~outcome[f].ok
                  /\ outcome[f].ok =>
                        field = Format1024mB(JNum(IF IsNumeric(outcome[f])
                                                  THEN outcome[f].count ELSE 0))
        /\ (Info.mtu = JStr(Dash)) <=> ~outcome.mtu.ok

\* C3 (amended): in every present InterfaceInfo a field is "-" exactly when
\* its own read failed or returned empty text, whatever the other sources
\* did; a counter read that returned text is shown as the formatted value of
\* the decimal integer the trimmed text starts with, zero when it starts
\* with none; an MTU read that returned text is shown as the trimmed text.
C3_DashIffNoText ==
    (pc = "done" /\ InfoPresent) =>
        /\ \A f \in {"rx", "tx"} :
              LET field == IF f = "rx" THEN Info.rxBytes ELSE Info.txBytes
                  noText == ~outcome[f].ok \/ outcome[f].text = <<>>
              IN  /\ (field = JStr(Dash)) <=> noText
                  /\ ~noText => field = Format1024mB(JNum(outcome[f].count))
        /\ LET noText == ~outcome.mtu.ok \/ outcome.mtu.text = <<>>
           IN  /\ (Info.mtu = JStr(Dash)) <=> noText
               /\ ~noText => Info.mtu = JStr(outcome.mtu.trimmed)

\* C3 witness: a failed RX read beside a TX counter that reads zero.
C3_Witness ==
    /\ pc = "done" /\ InfoPresent
    /\ ~outcome.rx.ok /\ outcome.tx.ok /\ outcome.tx.text = TextZero /\ ~outcome.mtu.ok
    /\ Info.rxBytes = JStr(Dash)
    /\ Info.txBytes = Format1024mB(JNum(0))
    /\ Info.mtu = JStr(Dash)

\* The address of the first line of `lines` that satisfies want, "-" without one.
FirstAddr(lines, want(_)) ==
    IF \E i \in 1..Len(lines) : want(lines[i])
    THEN lines[CHOOSE i \in 1..Len(lines) :
                   want(lines[i]) /\ \A j \in 1..(i - 1) : ~want(lines[j])].addr
    ELSE Dash

IsInet(l) == l.marker = "inet"
IsGlobalInet6(l) == l.marker = "inet6" /\ ~l.linkLocal

\* C4: in every present InterfaceInfo, ipv4 is the address of the first
\* `inet` line of the address command's output and ipv6 the address of the
\* first `inet6` line that is not link-local (fe80); later lines never
\* replace an address found and a link-local line does not block a global
\* one; each is "-" without such a line or when the command did not exit 0.
C4_FirstMatchWins ==
    (pc = "done" /\ InfoPresent) =>
        LET printed == IF outcome.ip.how = "exit" /\ outcome.ip.code = 0
                       THEN outcome.ip.lines ELSE <<>>
        IN  /\ Info.ipv4 = JStr(FirstAddr(printed, IsInet))
            /\ Info.ipv6 = JStr(FirstAddr(printed, IsGlobalInet6))

\* C4 witness: a link-local inet6 line before a global one, then reported.
C4_Witness ==
    /\ pc = "done" /\ InfoPresent
    /\ outcome.ip.how = "exit" /\ outcome.ip.code = 0 /\ Len(outcome.ip.lines) = 2
    /\ outcome.ip.lines[1].linkLocal
    /\ outcome.ip.lines[2].addr = Addr6
    /\ Info.ipv6 = JStr(Addr6)
    /\ Info.ipv4 = JStr(Dash)

(***************************************************************************)
(* Properties of the peer collector, checked under SpecPeer.               *)
(***************************************************************************)
PeerDone == pc = "done" /\ peerP.state = "fulfilled"
IsErrorRecord(r) == DOMAIN r = {"t", "error"}
IsPeerList(r) == DOMAIN r = {"t", "peers"}
IsParseError(r) == IsErrorRecord(r) /\ StartsWith(r.error.v, MsgParsePrefix)

StatusFailed(o) == o.how = "raise" \/ o.code # 0

\* The failure message the collector classifies: the raised error's message
\* or the result's, with the defaults of lines 63 and 67.
FailureText(o) ==
    IF o.how = "raise"
    THEN (IF o.msg.has /\ o.msg.frags # <<>> THEN MessageText(o.msg.frags)
          ELSE MsgFailedToExecute)
    ELSE (IF o.msg.has THEN MessageText(o.msg.frags) ELSE MsgCommandFailed)

MentionsPermission(o) == \E i \in 1..Len(o.msg.frags) : o.msg.frags[i].permission
MentionsStopped(o) == \E i \in 1..Len(o.msg.frags) : o.msg.frags[i].stopped

\* C5: when the status command fails to execute or exits non-zero, the
\* collector returns an error record, never a peer list, and never parses
\* the standard output: the permission-denied message when the failure
\* message contains "Permission" (also when it mentions "not running" or
\* "stopped" as well), else the service-not-running message when it contains
\* "not running" or "stopped", else the generic message with the raw text.
C5_FailureClassified ==
    (pc = "done" /\ StatusFailed(outcome.status)) =>
        /\ peerP.state = "fulfilled"
        /\ peerP.value =
              ErrorResult(IF MentionsPermission(outcome.status) THEN MsgPermissionDenied
                          ELSE IF MentionsStopped(outcome.status) THEN MsgNotRunning
                          ELSE MsgUnablePrefix \o FailureText(outcome.status))

\* C5 witness: a non-zero exit whose message says not running, then
\* Permission, with a peer document on standard output: permission denied.
C5_Witness ==
    /\ pc = "done"
    /\ outcome.status.how = "exit" /\ outcome.status.code # 0
    /\ outcome.status.out.kind = "json"
    /\ Len(outcome.status.msg.frags) = 2
    /\ outcome.status.msg.frags[1].stopped
    /\ outcome.status.msg.frags[2].permission
    /\ peerP = Fulfilled(ErrorResult(MsgPermissionDenied))

ExitedZero(o) == o.how = "exit" /\ o.code = 0

\* C6 (as claimed): with exit code 0 and standard output absent, empty or
\* white space, the collector returns the empty-output error; it returns the
\* parse-error message only when the output is non-empty and is not JSON.
C6_ParseErrorOnlyForBadJson ==
    (pc = "done" /\ ExitedZero(outcome.status)) =>
        /\ outcome.status.out.kind \in {"absent", "blank"} =>
              peerP = Fulfilled(ErrorResult(MsgEmptyOutput))
        /\ (peerP.state = "fulfilled" /\ IsParseError(peerP.value)) =>
              outcome.status.out.kind = "notJson"

\* The documents whose processing throws inside the try block: the document
\* is null, a peer record is null, a DNSName is neither falsy nor a string.
Unprocessable(d) == d.kind \in {"nullDocument", "nullRecord", "numericDNSName"}

\* C6 (amended): with exit code 0 and standard output absent, empty or
\* white space, the collector returns the empty-output error, never the
\* parse-error message; it returns the parse-error message only when the
\* output is non-empty and either is not JSON or is a JSON document
\* whose processing throws (null document, null peer record, DNSName that is
\* neither falsy nor a string).
C6_ParseErrorOnlyForBadDocument ==
    (pc = "done" /\ ExitedZero(outcome.status)) =>
        /\ outcome.status.out.kind \in {"absent", "blank"} =>
              peerP = Fulfilled(ErrorResult(MsgEmptyOutput))
        /\ (peerP.state = "fulfilled" /\ IsParseError(peerP.value)) =>
              \/ outcome.status.out.kind = "notJson"
              \/ outcome.status.out.kind = "json" /\ Unprocessable(outcome.status.out.doc)

\* C6 witness: exit code 0 with white space only on standard output.
C6_Witness ==
    /\ pc = "done" /\ ExitedZero(outcome.status)
    /\ outcome.status.out.kind = "blank" /\ outcome.status.out.text = TextBlank
    /\ peerP = Fulfilled(ErrorResult(MsgEmptyOutput))

\* What the summary of a peer record shows.
ExpHostname(r) ==
    CASE r.dns = "fqdn" -> TextNode1
      [] r.dns = "bare" -> TextBare
      [] OTHER -> IF r.host = "set" THEN TextHost ELSE Dash
ExpIp(r) == IF r.ips = "set" THEN TextIp ELSE Dash
ExpRelay(r) == IF r.relay = "set" THEN TextRelay ELSE Dash
ExpRx(r) == IF r.rx = "set" THEN Format1024mB(JNum(2097152)) ELSE JStr(Dash)
ExpTx(r) == IF r.tx = "set" THEN Format1024mB(JNum(1024)) ELSE JStr(Dash)

\* The result lists one summary per record of `recipes`, in their order.
ListsInOrder(result, recipes) ==
    /\ IsPeerList(result)
    /\ Len(result.peers.v) = Len(recipes)
    /\ \A i \in 1..Len(recipes) :
          /\ result.peers.v[i].hostname = JStr(ExpHostname(recipes[i]))
          /\ result.peers.v[i].ip = JStr(ExpIp(recipes[i]))

\* C7 (as claimed): whenever the command exits 0 and its non-empty output
\* parses as JSON, the collector returns the peer list: one summary per
\* entry of `Peer`, in the mapping's order, empty without a `Peer` field.
C7_SuccessWheneverJson ==
    (pc = "done" /\ ExitedZero(outcome.status) /\ outcome.status.out.kind = "json") =>
        /\ peerP.state = "fulfilled"
        /\ ListsInOrder(peerP.value, outcome.status.out.doc.peers)

\* C7 (amended): whenever the command exits 0 and its non-empty output
\* parses as JSON to a document whose processing does not throw (the
\* document is not null, no peer record is null, every DNSName is falsy or
\* a string), the collector returns the peer list: one summary per entry of
\* `Peer`, in the mapping's order, empty without a `Peer` field; a record
\* that lacks fields contributes a summary with defaults. For a document
\* whose processing throws it returns the parse-error message.
C7_SuccessWheneverProcessable ==
    (pc = "done" /\ ExitedZero(outcome.status) /\ outcome.status.out.kind = "json") =>
        /\ peerP.state = "fulfilled"
        /\ IF Unprocessable(outcome.status.out.doc)
           THEN IsParseError(peerP.value)
           ELSE ListsInOrder(peerP.value, outcome.status.out.doc.peers)

\* C7 witness: a document of two different peers, summarised in its order.
C7_Witness ==
    /\ pc = "done" /\ ExitedZero(outcome.status) /\ outcome.status.out.kind = "json"
    /\ Len(outcome.status.out.doc.peers) = 2
    /\ outcome.status.out.doc.peers[1] = [f \in PeerFields |-> "absent"]
    /\ outcome.status.out.doc.peers[2] = FullRecipe
    /\ IsPeerList(peerP.value)
    /\ peerP.value.peers.v[1].hostname = JStr(Dash)
    /\ peerP.value.peers.v[2].hostname = JStr(TextNode1)

\* C8 (as claimed): every summary of a success result is well-formed, for
\* records missing any subset of fields: online and direct are booleans
\* (direct true iff the record carries a CurAddr) and ip, hostname, relay,
\* rxBytes, txBytes are strings, "-" when the source field is absent (for
\* rxBytes and txBytes also when the counter is zero).
C8_SummaryWellFormed ==
    (pc = "done" /\ peerP.state = "fulfilled" /\ IsPeerList(peerP.value)) =>
        \A i \in 1..Len(peerP.value.peers.v) :
            LET sum == peerP.value.peers.v[i]
                r == outcome.status.out.doc.peers[i]
            IN  /\ sum.online.t = "boolean"
                /\ sum.direct = JBool(r.cur = "set")
                /\ \A f \in {"ip", "hostname", "relay", "rxBytes", "txBytes"} : IsString(sum[f])
                /\ r.ips = "absent" => sum.ip = JStr(Dash)
                /\ (r.dns = "absent" /\ r.host = "absent") => sum.hostname = JStr(Dash)
                /\ r.relay = "absent" => sum.relay = JStr(Dash)
                /\ r.rx \in {"absent", "zero"} => sum.rxBytes = JStr(Dash)
                /\ r.tx \in {"absent", "zero"} => sum.txBytes = JStr(Dash)

\* C9: a peer's hostname is the text before the first "." of its DNS name
\* when it has one, otherwise its HostName field, otherwise "-"; the
\* HostName field is never used when a DNS name is present.
C9_HostnameFallback ==
    (pc = "done" /\ peerP.state = "fulfilled" /\ IsPeerList(peerP.value)) =>
        \A i \in 1..Len(peerP.value.peers.v) :
            LET r == outcome.status.out.doc.peers[i]
            IN  peerP.value.peers.v[i].hostname =
                    JStr(IF r.dns \in {"fqdn", "bare"}
                         THEN (IF r.dns = "fqdn" THEN TextNode1 ELSE TextBare)
                         ELSE IF r.host = "set" THEN TextHost
                         ELSE Dash)

\* C9 witness: a record with both a DNS name and a HostName shows the
\* first label of the DNS name.
C9_Witness ==
    /\ pc = "done" /\ peerP.state = "fulfilled" /\ IsPeerList(peerP.value)
    /\ outcome.status.out.doc.peers = <<FullRecipe>>
    /\ peerP.value.peers.v[1].hostname = JStr(TextNode1)

(***************************************************************************)
(* Properties of the refresh cycle, checked under Spec.                    *)
(***************************************************************************)
WellFormedLoad(r) ==
    /\ DOMAIN r = {"t", "interfaceInfo", "peerStatus"}
    /\ r.interfaceInfo = JNull
       \/ DOMAIN r.interfaceInfo = {"t", "name", "rxBytes", "txBytes", "mtu", "ipv4", "ipv6"}
    /\ IsErrorRecord(r.peerStatus) \/ IsPeerList(r.peerStatus)

\* C1 (as claimed): for every combination of source outcomes no raised
\* fault escapes loadInterfaceInfo, loadPeerStatus or load, and a load whose
\* sources have all settled has completed with a result object that carries
\* interfaceInfo (a record or null) and peerStatus (an error record or a
\* peer list).
C1_NoFaultEscapes ==
    /\ ifaceP.state # "rejected"
    /\ peerP.state # "rejected"
    /\ loadP.state # "rejected"
    /\ (pc # "idle" /\ \A s \in Sources : slot[s] # Pending) =>
          loadP.state = "fulfilled" /\ WellFormedLoad(loadP.value)

\* What load() returns when the five sources settle to this cycle's outcomes.
ResultOf(o) ==
    load(loadInterfaceInfo(Settles(o, "rx"), Settles(o, "tx"), Settles(o, "mtu"),
                           Settles(o, "ip")),
         loadPeerStatus(Settles(o, "status")))

\* A source that did not fail is reported as read (a source of the
\* interface collector: wherever there is an InterfaceInfo to report it in).
ReportedRead(r, s) ==
    CASE s = "status" -> IsPeerList(r.peerStatus)
      [] OTHER ->
           r.interfaceInfo # JNull =>
               CASE s = "rx" -> r.interfaceInfo.rxBytes # JStr(Dash)
                 [] s = "tx" -> r.interfaceInfo.txBytes # JStr(Dash)
                 [] s = "mtu" -> r.interfaceInfo.mtu # JStr(Dash)
                 [] s = "ip" -> r.interfaceInfo.ipv4 # JStr(Dash)

\* C10: in every refresh cycle and for every order in which the five fs
\* calls settle, the result of load() is the result of that cycle's own
\* source outcomes: nothing of an earlier cycle is in it, and a source that
\* failed in the cycle before and succeeds in this one is reported as read.
C10_ResultOfOwnOutcomes ==
    loadP.state # "pending" =>
        /\ loadP = ResultOf(outcome)
        /\ loadP.state = "fulfilled" =>
              \A s \in prev \ FailedSources(outcome) : ReportedRead(loadP.value, s)

\* C10 witness: a second cycle in which the status command settled first
\* and the RX read and the address command, failed a cycle earlier, succeed.
C10_Witness ==
    /\ cycle = 2
    /\ first = "status"
    /\ {"rx", "ip"} \subseteq prev
    /\ FailedSources(outcome) = {"tx"}
    /\ loadP.state = "fulfilled"
    /\ loadP.value.interfaceInfo.rxBytes = Format1024mB(JNum(1048576))
    /\ loadP.value.interfaceInfo.txBytes = JStr(Dash)
    /\ loadP.value.interfaceInfo.ipv4 = JStr(Addr4)

=============================================================================
